---- MODULE Spec2Model ----
(***************************************************************************)
(* ChatBI MCP server: the connection registry (scripts/connection.py), the *)
(* stored configuration (scripts/config.py) and the tool operations with   *)
(* the query gate of execute_query (scripts/tools.py).                     *)
(*                                                                         *)
(* A Python str is modelled as a sequence of one-character strings, so     *)
(* strip(), upper(), startswith() and the `in` substring test are computed *)
(* character by character, as the interpreter computes them.               *)
(***************************************************************************)
EXTENDS Integers, Sequences, FiniteSets, TLC

(***************************************************************************)
(* Bounds of the model.                                                    *)
(***************************************************************************)
\* native connection objects created during one run
MaxConns == 2
\* rows held by every table of a backend
TableRows == 3

(***************************************************************************)
(* Python str operations.                                                  *)
(***************************************************************************)
Whitespace == {" ", "\t", "\n"}
LowerLetters == <<"a","b","c","d","e","f","g","h","i","j","k","l","m","n","o","p","q","r","s","t","u","v","w","x","y","z">>
UpperLetters == <<"A","B","C","D","E","F","G","H","I","J","K","L","M","N","O","P","Q","R","S","T","U","V","W","X","Y","Z">>
Digits == <<"0","1","2","3","4","5","6","7","8","9">>

\* str.upper() of one character
upper_char(c) ==
  IF \E i \in 1..26 : LowerLetters[i] = c
  THEN UpperLetters[CHOOSE i \in 1..26 : LowerLetters[i] = c]
  ELSE c

\* str.upper()
upper(s) == [i \in 1..Len(s) |-> upper_char(s[i])]

\* str.strip(): drops the leading and the trailing whitespace
strip(s) ==
  LET keep == {i \in 1..Len(s) : s[i] \notin Whitespace}
  IN IF keep = {} THEN <<>>
     ELSE LET lo == CHOOSE i \in keep : \A j \in keep : i <= j
              hi == CHOOSE i \in keep : \A j \in keep : i >= j
          IN SubSeq(s, lo, hi)

\* str.startswith(p)
startswith(s, p) == Len(p) <= Len(s) /\ SubSeq(s, 1, Len(p)) = p

\* position of the first occurrence of p in s, 0 when there is none (str.find + 1)
find(s, p) ==
  LET at == {i \in 1..(Len(s) - Len(p) + 1) : SubSeq(s, i, i + Len(p) - 1) = p}
  IN IF at = {} THEN 0 ELSE CHOOSE i \in at : \A j \in at : i <= j

\* `p in s`
contains(s, p) == find(s, p) # 0

\* str(n) of a non-negative int, as the f-string formats it
RECURSIVE format_int(_)
format_int(n) ==
  IF n < 10 THEN <<Digits[n + 1]>> ELSE format_int(n \div 10) \o <<Digits[(n % 10) + 1]>>

(***************************************************************************)
(* String constants of the source.                                         *)
(***************************************************************************)
K_SELECT == <<"S","E","L","E","C","T">>
K_DROP == <<"D","R","O","P">>
K_DELETE == <<"D","E","L","E","T","E">>
K_TRUNCATE == <<"T","R","U","N","C","A","T","E">>
K_UPDATE == <<"U","P","D","A","T","E">>
K_INSERT == <<"I","N","S","E","R","T">>
K_ALTER == <<"A","L","T","E","R">>
K_LIMIT == <<"L","I","M","I","T">>
\* ' LIMIT '
S_Limit == <<" ","L","I","M","I","T"," ">>
\* 'DESCRIBE '
S_Describe == <<"D","E","S","C","R","I","B","E"," ">>
\* 'SELECT COUNT(*) as count FROM '
S_Count == <<"S","E","L","E","C","T"," ","C","O","U","N","T","(","*",")"," ","a","s"," ","c","o","u","n","t"," ","F","R","O","M"," ">>

\* dangerous_keywords with UPDATE left out of the list
dangerous_keywords_without_update == <<K_DROP, K_DELETE, K_TRUNCATE, K_INSERT, K_ALTER>>

\* dangerous_keywords, in the order the loop tries them
dangerous_keywords == <<K_DROP, K_DELETE, K_TRUNCATE, K_UPDATE, K_INSERT, K_ALTER>>

(***************************************************************************)
(* Inputs: the statements, table names, limits and configuration names the *)
(* callers supply.                                                         *)
(***************************************************************************)
\* 'SELECT * FROM users'
Q_SelectUsers == <<"S","E","L","E","C","T"," ","*"," ","F","R","O","M"," ","u","s","e","r","s">>
\* 'DELETE FROM users'
Q_DeleteUsers == <<"D","E","L","E","T","E"," ","F","R","O","M"," ","u","s","e","r","s">>
\* 'select id from orders limit 5'
Q_LowerLimit5 == <<"s","e","l","e","c","t"," ","i","d"," ","f","r","o","m"," ","o","r","d","e","r","s"," ","l","i","m","i","t"," ","5">>
\* ' \tselect * from users'
Q_LeadingSpace == <<" ","\t","s","e","l","e","c","t"," ","*"," ","f","r","o","m"," ","u","s","e","r","s">>
\* 'SELECT last_updated FROM users'
Q_LastUpdated == <<"S","E","L","E","C","T"," ","l","a","s","t","_","u","p","d","a","t","e","d"," ","F","R","O","M"," ","u","s","e","r","s">>
\* 'SELECT * FROM rate_limits'
Q_RateLimits == <<"S","E","L","E","C","T"," ","*"," ","F","R","O","M"," ","r","a","t","e","_","l","i","m","i","t","s">>
\* 'SELECT 1; CREATE TABLE x (a INT) -- limit'
Q_SemiCreate == <<"S","E","L","E","C","T"," ","1",";"," ","C","R","E","A","T","E"," ","T","A","B","L","E"," ","x"," ","(","a"," ","I","N","T",")"," ","-","-"," ","l","i","m","i","t">>
\* 'SELECT * FROM users;'
Q_TrailingSemi == <<"S","E","L","E","C","T"," ","*"," ","F","R","O","M"," ","u","s","e","r","s",";">>
\* 'EXPLAIN SELECT 1'
Q_Explain == <<"E","X","P","L","A","I","N"," ","S","E","L","E","C","T"," ","1">>
\* "select 'drop' from users"
Q_DropLiteral == <<"s","e","l","e","c","t"," ","'","d","r","o","p","'"," ","f","r","o","m"," ","u","s","e","r","s">>
\* ''
Q_Empty == <<>>

Queries ==
  {Q_SelectUsers, Q_DeleteUsers, Q_LowerLimit5, Q_LeadingSpace, Q_LastUpdated,
   Q_RateLimits, Q_SemiCreate, Q_TrailingSemi, Q_Explain, Q_DropLiteral, Q_Empty}

\* 'users'
T_Users == <<"u","s","e","r","s">>
\* 'users; DROP TABLE users'
T_Inject == <<"u","s","e","r","s",";"," ","D","R","O","P"," ","T","A","B","L","E"," ","u","s","e","r","s">>

\* 'nosuch'
T_NoSuch == <<"n","o","s","u","c","h">>

TableNames == {T_Users, T_Inject, T_NoSuch}

\* the default of execute_query's limit, and a small one
Limits == {2, 1000}

\* the calls of execute_query: every statement with the small limit, and the
\* statements without and with a LIMIT of their own with the default limit
QueryCalls ==
  {<<q, 2>> : q \in Queries}
    \cup {<<Q_SelectUsers, 1000>>, <<Q_LowerLimit5, 1000>>, <<Q_RateLimits, 1000>>}

\* the keywords of search_tables: 'USER' and 'e'
SearchWords == {<<"U","S","E","R">>, <<"e">>}

Kinds == {"mysql", "postgresql", "sqlite"}
ConfigNames == {"default", "reports"}
\* a caller may also name a configuration that is not stored
CallNames == ConfigNames \cup {"missing"}

\* the configuration files the server is started with
ConfigFiles ==
  { [default |-> "sqlite", reports |-> "mysql"],
    [default |-> "mysql", reports |-> "postgresql"],
    [default |-> "postgresql", reports |-> "sqlite"] }

(***************************************************************************)
(* execute_query: the gate (tools.py 176-188) and the row cap (197-199).   *)
(***************************************************************************)
\* query_upper = query.strip().upper()
query_upper(query) == upper(strip(query))

\* the first keyword of dangerous_keywords found in the upper-cased text, 0 if none
first_dangerous(qu) ==
  LET hits == {k \in 1..Len(dangerous_keywords) : contains(qu, dangerous_keywords[k])}
  IN IF hits = {} THEN 0 ELSE CHOOSE k \in hits : \A j \in hits : k <= j

\* the gate with `"SELECT" in query_upper` in place of startswith
gate_select_anywhere(query) ==
  LET qu == query_upper(query)
      k == first_dangerous(qu)
  IN IF ~contains(qu, K_SELECT)
     THEN [accepted |-> FALSE, reason |-> "NotASelect", kw |-> <<>>]
     ELSE IF k # 0
     THEN [accepted |-> FALSE, reason |-> "ForbiddenKeyword", kw |-> dangerous_keywords[k]]
     ELSE [accepted |-> TRUE, reason |-> "ok", kw |-> <<>>]

\* the two checks that raise ValueError before anything else is done
gate(query) ==
  LET qu == query_upper(query)
      k == first_dangerous(qu)
  IN IF ~startswith(qu, K_SELECT)
     THEN [accepted |-> FALSE, reason |-> "NotASelect", kw |-> <<>>]
     ELSE IF k # 0
     THEN [accepted |-> FALSE, reason |-> "ForbiddenKeyword", kw |-> dangerous_keywords[k]]
     ELSE [accepted |-> TRUE, reason |-> "ok", kw |-> <<>>]

\* if "LIMIT" not in query_upper: query = f"{query} LIMIT {limit}"
rewrite(query, limit) ==
  IF ~contains(query_upper(query), K_LIMIT)
  THEN query \o S_Limit \o format_int(limit)
  ELSE query

(***************************************************************************)
(* The backend behind cursor.execute / fetchall: what a server does with   *)
(* the text it is sent.  Every table holds TableRows rows.                 *)
(***************************************************************************)
\* the text before a '--' comment
code_part(text) ==
  LET c == find(text, <<"-","-">>)
  IN IF c = 0 THEN text ELSE SubSeq(text, 1, c - 1)

\* the first statement of the text, and what follows its ';'
first_statement(text) ==
  LET code == code_part(text)
      semi == find(code, <<";">>)
  IN IF semi = 0 THEN code ELSE SubSeq(code, 1, semi - 1)

rest_statements(text) ==
  LET code == code_part(text)
      semi == find(code, <<";">>)
  IN IF semi = 0 THEN <<>> ELSE strip(SubSeq(code, semi + 1, Len(code)))

\* decimal value of a sequence of digits
RECURSIVE parse_int(_)
parse_int(ds) ==
  IF ds = <<>> THEN 0
  ELSE 10 * parse_int(SubSeq(ds, 1, Len(ds) - 1))
       + (CHOOSE d \in 0..9 : Digits[d + 1] = ds[Len(ds)])

is_number(ds) == ds # <<>> /\ \A i \in 1..Len(ds) : \E d \in 1..10 : Digits[d] = ds[i]

\* the row count of the statement's LIMIT clause, -1 when it has none
limit_clause(stmt) ==
  LET u == upper(strip(stmt))
      at == {i \in 1..Len(u) :
               /\ i + Len(S_Limit) - 1 <= Len(u)
               /\ SubSeq(u, i, i + Len(S_Limit) - 1) = S_Limit
               /\ is_number(strip(SubSeq(u, i + Len(S_Limit), Len(u))))}
  IN IF at = {} THEN -1
     ELSE LET i == CHOOSE j \in at : TRUE
          IN parse_int(strip(SubSeq(u, i + Len(S_Limit), Len(u))))

\* the tables of every backend
Tables == { <<"u","s","e","r","s">>, <<"o","r","d","e","r","s">>,
            <<"r","a","t","e","_","l","i","m","i","t","s">> }

\* the word that starts at position i
word_at(s, i) ==
  LET stop == {j \in i..Len(s) : s[j] \in Whitespace \cup {";"}}
  IN IF stop = {} THEN SubSeq(s, i, Len(s))
     ELSE SubSeq(s, i, (CHOOSE j \in stop : \A k \in stop : j <= k) - 1)

\* the table a statement reads: the word after DESCRIBE or after FROM, <<>> if none
table_of(stmt) ==
  LET t == strip(stmt)
      u == upper(t)
      f == find(u, <<" ","F","R","O","M"," ">>)
  IN IF startswith(u, S_Describe) THEN word_at(t, Len(S_Describe) + 1)
     ELSE IF f # 0 THEN word_at(t, f + 6)
     ELSE <<>>

table_exists(stmt) == table_of(stmt) = <<>> \/ table_of(stmt) \in Tables

\* commands that create, change or remove data or schema
WriteCommands ==
  { <<"C","R","E","A","T","E">>, <<"D","R","O","P">>, <<"R","E","P","L","A","C","E">>,
    K_DELETE, K_TRUNCATE, K_UPDATE, K_INSERT, K_ALTER }

is_write(stmt) == \E w \in WriteCommands : startswith(upper(strip(stmt)), w)

\* cursor.execute(text) followed by the fetch, on a usable connection of `kind`.
\* multi: whether this MySQL client lets one execute() carry several statements
\* (the client's multi-statement capability flag); psycopg2 always sends the
\* whole text, sqlite3 refuses a text with more than one statement.
\*   ok      the caller gets a result set
\*   rows    how many rows fetchall() returns
\*   wrote   the server executed a write-class statement
\*   failed  the server itself reported an error (not only the client)
backend_run(kind, text, multi) ==
  LET head == first_statement(text)
      rest == rest_statements(text)
      lim == limit_clause(head)
  IN IF ~table_exists(head)
     THEN [ok |-> FALSE, rows |-> 0, wrote |-> FALSE, failed |-> TRUE]
     ELSE IF rest = <<>>
     THEN [ok |-> TRUE,
           rows |-> IF lim >= 0 /\ lim < TableRows THEN lim ELSE TableRows,
           wrote |-> is_write(head), failed |-> FALSE]
     ELSE IF kind = "postgresql" \/ (kind = "mysql" /\ multi)
     THEN IF is_write(rest) /\ table_exists(rest)
          THEN [ok |-> FALSE, rows |-> 0, wrote |-> TRUE, failed |-> FALSE]
          ELSE [ok |-> FALSE, rows |-> 0, wrote |-> FALSE, failed |-> TRUE]
     ELSE [ok |-> FALSE, rows |-> 0, wrote |-> FALSE, failed |-> kind = "mysql"]

(***************************************************************************)
(* The gate, the rewrite and the backend on the inputs of the model, each  *)
(* computed once.                                                          *)
(***************************************************************************)
gate_of == [q \in Queries |-> gate(q)]

rewrite_of == [q \in Queries, l \in Limits |-> rewrite(q, l)]

\* every text a tool can pass to cursor.execute
Texts ==
  {rewrite_of[q, l] : q \in {a \in Queries : gate_of[a].accepted}, l \in Limits}
    \cup {S_Describe \o t : t \in TableNames}
    \cup {S_Count \o t : t \in TableNames}

backend_of == [k \in Kinds, t \in Texts, m \in BOOLEAN |-> backend_run(k, t, m)]

(***************************************************************************)
(* scripts/config.py: the configuration file, the environment and Config.  *)
(* A configuration entry is a function from its keys to its values; a      *)
(* value carries whether it is a str (isinstance(value, str)) and its      *)
(* characters (of an int: its digits).                                     *)
(***************************************************************************)
\* str.endswith(p)
endswith(s, p) == Len(p) <= Len(s) /\ SubSeq(s, Len(s) - Len(p) + 1, Len(s)) = p

str_value(chars) == [str |-> TRUE, v |-> chars]
int_value(n) == [str |-> FALSE, v |-> format_int(n)]

\* the characters of the keys of an entry
key_text ==
  [type |-> <<"t","y","p","e">>,
   host |-> <<"h","o","s","t">>,
   port |-> <<"p","o","r","t">>,
   user |-> <<"u","s","e","r">>,
   password |-> <<"p","a","s","s","w","o","r","d">>,
   database |-> <<"d","a","t","a","b","a","s","e">>]

V_mysql == <<"m","y","s","q","l">>
V_postgresql == <<"p","o","s","t","g","r","e","s","q","l">>
V_sqlite == <<"s","q","l","i","t","e">>
V_oracle == <<"o","r","a","c","l","e">>
V_testdb == <<"t","e","s","t",".","d","b">>
V_localhost == <<"l","o","c","a","l","h","o","s","t">>
V_root == <<"r","o","o","t">>
V_shop == <<"s","h","o","p">>
V_TokenDbPass == <<"$","{","D","B","_","P","A","S","S","}">>
V_TokenDbType == <<"$","{","D","B","_","T","Y","P","E","}">>
V_HalfToken == <<"$","{","D","B","_","P","A","S","S">>
V_secret == <<"s","e","c","r","e","t">>
V_override == <<"o","v","e","r","r","i","d","e">>
V_plain == <<"p","l","a","i","n">>
N_DB_PASS == <<"D","B","_","P","A","S","S">>
N_CHATBI_PASSWORD == <<"C","H","A","T","B","I","_","P","A","S","S","W","O","R","D">>
N_CHATBI_TYPE == <<"C","H","A","T","B","I","_","T","Y","P","E">>
S_Chatbi == <<"C","H","A","T","B","I","_">>
S_TokenOpen == <<"$","{">>
S_TokenClose == <<"}">>

\* required_fields of _validate_config, the same for every type
required_fields == {"type", "host", "port", "user", "password", "database"}

\* the types _validate_config accepts
supported_types == {V_mysql, V_postgresql, V_sqlite}

\* a full entry of the given type, password and database
full_entry(type, password, database) ==
  [type |-> str_value(type), host |-> str_value(V_localhost), port |-> int_value(3306),
   user |-> str_value(V_root), password |-> str_value(password),
   database |-> str_value(database)]

\* an entry without some of its keys
without(entry, keys) == [k \in (DOMAIN entry) \ keys |-> entry[k]]

\* a file with no entry
NoConfigs == [n \in {} |-> 0]

\* {"default": {"type": "sqlite", "database": "test.db"}}
F_SqliteShort ==
  [default |-> [type |-> str_value(V_sqlite), database |-> str_value(V_testdb)]]

F_Valid ==
  [default |-> full_entry(V_mysql, V_TokenDbPass, V_shop),
   reports |-> full_entry(V_sqlite, V_plain, V_testdb)]

F_MissingPassword ==
  [default |-> full_entry(V_postgresql, V_plain, V_shop),
   reports |-> without(full_entry(V_mysql, V_plain, V_shop), {"password"})]

F_Oracle ==
  [default |-> full_entry(V_mysql, V_plain, V_shop),
   reports |-> full_entry(V_oracle, V_plain, V_shop)]

F_TokenType == [default |-> full_entry(V_TokenDbType, V_plain, V_shop)]

F_HalfToken == [default |-> full_entry(V_postgresql, V_HalfToken, V_shop)]

\* the contents db_config.json may have
SourceFiles ==
  {F_SqliteShort, F_Valid, F_MissingPassword, F_Oracle, F_TokenType, F_HalfToken, NoConfigs}

\* the value of a variable that is not set
Unset == <<"unset">>

\* an environment: the variables that are set, with their values
environment(db_pass, chatbi_password, chatbi_type) ==
  LET value(n) == IF n = N_DB_PASS THEN db_pass
                  ELSE IF n = N_CHATBI_PASSWORD THEN chatbi_password ELSE chatbi_type
      names == {N_DB_PASS, N_CHATBI_PASSWORD, N_CHATBI_TYPE}
  IN [n \in {m \in names : value(m) # Unset} |-> value(n)]

\* the environments the process may be started in
Environments ==
  { environment(a, b, c) : a \in {Unset, V_secret},
                           b \in {Unset, V_override, <<>>},
                           c \in {Unset, V_postgresql, V_oracle} }

\* what one entry makes _validate_config raise
entry_error(config) ==
  IF \E f \in required_fields : f \notin DOMAIN config THEN "MissingFields"
  ELSE IF ~(config["type"].str /\ config["type"].v \in supported_types)
  THEN "UnsupportedType"
  ELSE "ok"

\* the names of a file's entries in the order of the file
entry_order == <<"default", "reports">>

\* _validate_config that looks at the first entry only
_validate_config_first_only(configs) ==
  IF DOMAIN configs = {} THEN "EmptyConfig"
  ELSE LET first == CHOOSE i \in 1..Len(entry_order) :
                      /\ entry_order[i] \in DOMAIN configs
                      /\ \A j \in 1..(i - 1) : entry_order[j] \notin DOMAIN configs
       IN entry_error(configs[entry_order[first]])

\* _validate_config(configs): "ok", or the error it raises at the first entry
\* that has one
_validate_config(configs) ==
  IF DOMAIN configs = {} THEN "EmptyConfig"
  ELSE LET bad == {i \in 1..Len(entry_order) :
                     /\ entry_order[i] \in DOMAIN configs
                     /\ entry_error(configs[entry_order[i]]) # "ok"}
       IN IF bad = {} THEN "ok"
          ELSE entry_error(configs[entry_order[CHOOSE i \in bad : \A j \in bad : i <= j]])

\* _load_config(): the mapping it returns, when validation lets it return
_load_config(file) ==
  LET v == _validate_config(file)
  IN [outcome |-> v, configs |-> IF v = "ok" THEN file ELSE NoConfigs]

\* os.getenv(name) finds a value
is_set(env, name) == name \in DOMAIN env

\* the value is written as a reference: value.startswith('${') and value.endswith('}')
is_reference(chars) == startswith(chars, S_TokenOpen) /\ endswith(chars, S_TokenClose)

\* value[2:-1]
env_var(chars) == SubSeq(chars, 3, Len(chars) - 1)

\* f"CHATBI_{key.upper()}"
env_key(key) == S_Chatbi \o upper(key_text[key])

\* what _expand_env_vars puts in result[key]
expand_value(env, key, value) ==
  IF ~value.str THEN value
  ELSE IF is_reference(value.v) THEN str_value(env[env_var(value.v)])
  ELSE IF is_set(env, env_key(key)) THEN str_value(env[env_key(key)])
  ELSE value

\* the keys of the entry at which _expand_env_vars raises: a reference to a
\* variable for which os.getenv returns None
undefined_references(env, config) ==
  {k \in DOMAIN config :
     /\ config[k].str /\ is_reference(config[k].v)
     /\ ~is_set(env, env_var(config[k].v))}

\* _expand_env_vars that lets CHATBI_<KEY> override a resolved reference too
_expand_env_vars_override_always(env, config) ==
  LET undefined == {k \in DOMAIN config :
                      /\ config[k].str /\ is_reference(config[k].v)
                      /\ ~is_set(env, env_var(config[k].v))}
  IN IF undefined # {}
     THEN [outcome |-> "MissingEnvironmentValue", config |-> NoConfigs]
     ELSE [outcome |-> "ok",
           config |-> [k \in DOMAIN config |->
                         IF config[k].str /\ is_set(env, env_key(k))
                         THEN str_value(env[env_key(k)])
                         ELSE expand_value(env, k, config[k])]]

\* _expand_env_vars(config) under the environment env: the expanded entry, or
\* the error raised for a reference to a variable that is not set
_expand_env_vars(env, config) ==
  IF undefined_references(env, config) # {}
  THEN [outcome |-> "MissingEnvironmentValue", config |-> NoConfigs]
  ELSE [outcome |-> "ok",
        config |-> [k \in DOMAIN config |-> expand_value(env, k, config[k])]]

\* get_config that expands the stored entry itself, not a copy of it
get_config_expand_in_place(configs, env, name) ==
  IF name \notin DOMAIN configs
  THEN [outcome |-> "ConfigNameUnknown", config |-> NoConfigs, configs |-> configs]
  ELSE LET r == _expand_env_vars(env, configs[name])
       IN [outcome |-> r.outcome, config |-> r.config,
           configs |-> IF r.outcome = "ok" THEN [configs EXCEPT ![name] = r.config]
                       ELSE configs]

\* Config.get_config(name) on the stored configs: what the caller gets, and
\* self.configs after the call (the entry is copied, the expansion fills a new
\* dict)
get_config(configs, env, name) ==
  IF name \notin DOMAIN configs
  THEN [outcome |-> "ConfigNameUnknown", config |-> NoConfigs, configs |-> configs]
  ELSE LET r == _expand_env_vars(env, configs[name])
       IN [outcome |-> r.outcome, config |-> r.config, configs |-> configs]

(***************************************************************************)
(* State.                                                                  *)
(***************************************************************************)
VARIABLES
  configs,      \* Config.configs: configuration name -> its `type`
  connections,  \* ConnectionManager.connections: name -> which of the name's
                \* native connections is stored, NoConn if the name has no entry
  objs,         \* the native connection objects created for each name, in the
                \* order of their creation
  last,         \* what the most recent call did and returned
  threads,      \* the invocations in progress: where each stands in its code
  config_file,  \* the content of db_config.json
  environ,      \* os.environ
  _global_config,  \* config.py's _global_config: the Config it holds, if any
  config_last   \* what the most recent call on the configuration returned

vars == <<configs, connections, objs, last,
          threads, config_file, environ, _global_config, config_last>>

\* the state of the configuration
config_vars == <<config_file, environ, _global_config, config_last>>

NoConn == 0

\* a call that has done nothing yet
NoCall ==
  [op |-> "none", name |-> "", arg |-> <<>>, limit |-> 0,
   outcome |-> "none", kw |-> <<>>, conn |-> NoConn, prev_conn |-> NoConn,
   probes |-> 0, attempts |-> 0, closed |-> 0, swallowed |-> 0,
   cursors |-> 0, cursor_closes |-> 0,
   executed |-> <<>>, rows |-> 0, wrote |-> FALSE, columns |-> <<>>,
   values |-> <<>>]

Call(op, name, arg, limit) ==
  [NoCall EXCEPT !.op = op, !.name = name, !.arg = arg, !.limit = limit]

\* the invocations that may be in progress at once
Threads == {"t1", "t2"}

\* an invocation that has not started
Idle ==
  [pc |-> "idle", op |-> "none", name |-> "", conn |-> NoConn,
   outcome |-> "none", overlapped |-> FALSE]

\* _global_config before the first get_config()
NoConfig == [loaded |-> FALSE, configs |-> NoConfigs]

\* no earlier result of get_config
NoEarlier == [name |-> "", config |-> NoConfigs]

\* no call on the configuration yet.  earlier: the name and the result of the
\* last get_config that returned before this call
NoConfigCall ==
  [op |-> "none", name |-> "", outcome |-> "none", config |-> NoConfigs,
   earlier |-> NoEarlier]

\* one invocation at a time, on a configuration that has loaded
Init ==
  /\ configs \in ConfigFiles
  /\ connections = [n \in ConfigNames |-> NoConn]
  /\ objs = [n \in ConfigNames |-> <<>>]
  /\ last = NoCall
  /\ threads = [t \in Threads |-> Idle]
  /\ config_file = F_Valid
  /\ environ = environment(V_secret, Unset, Unset)
  /\ _global_config = [loaded |-> TRUE, configs |-> F_Valid]
  /\ config_last = NoConfigCall

\* how many native connections have been created
RECURSIVE count_created(_, _)
count_created(os, names) ==
  IF names = {} THEN 0
  ELSE LET n == CHOOSE x \in names : TRUE
       IN Len(os[n]) + count_created(os, names \ {n})

(***************************************************************************)
(* scripts/connection.py: ConnectionManager.                               *)
(***************************************************************************)
\* a native connection object as connect() returns it
new_connection(name) ==
  [kind |-> configs[name], closed |-> FALSE, usable |-> TRUE, close_failed |-> FALSE]

\* the object after its close() has run
closed_connection(o) ==
  [o EXCEPT !.closed = TRUE, !.usable = FALSE, !.close_failed = FALSE]

\* the object after `del self.connections[name]`: still open, and out of the
\* reach of every later call
dropped_connection(o) == [o EXCEPT !.usable = FALSE]

\* _is_connection_valid with the answer of the probe negated
_is_connection_valid_negated(name) ==
  LET o == objs[name][connections[name]]
  IN CASE configs[name] = "mysql" -> ~o.usable
       [] configs[name] = "postgresql" -> ~o.usable
       [] configs[name] = "sqlite" -> FALSE
       [] OTHER -> FALSE

\* _is_connection_valid(name), for a name that has an entry
_is_connection_valid(name) ==
  LET o == objs[name][connections[name]]
  IN CASE configs[name] = "mysql" -> o.usable          \* connection.is_connected()
       [] configs[name] = "postgresql" -> o.usable     \* cursor(); execute('SELECT 1')
       [] configs[name] = "sqlite" -> TRUE
       [] OTHER -> FALSE

\* the object after its close() has raised: still open, and out of the reach
\* of every later call
close_failed_connection(o) == [o EXCEPT !.usable = FALSE, !.close_failed = TRUE]

\* get_connection that removes an invalid entry only once its replacement exists
get_connection_keep_stale(name, connect_ok) ==
  LET has == name \in ConfigNames /\ connections[name] # NoConn
      valid == has /\ _is_connection_valid(name)
      old == connections[name]
      objs1 == IF has /\ ~valid
               THEN [objs EXCEPT ![name][old] = dropped_connection(objs[name][old])]
               ELSE objs
      probes == IF has THEN 1 ELSE 0
  IN IF valid
     THEN [outcome |-> "ok", conn |-> old, reg |-> connections,
           objs |-> objs, probes |-> 1, attempts |-> 0]
     ELSE IF name \notin DOMAIN configs
     THEN [outcome |-> "ConfigNameUnknown", conn |-> NoConn, reg |-> connections,
           objs |-> objs, probes |-> probes, attempts |-> 0]
     ELSE IF ~connect_ok
     THEN [outcome |-> "ConnectionFailed", conn |-> NoConn, reg |-> connections,
           objs |-> objs, probes |-> probes, attempts |-> 1]
     ELSE [outcome |-> "ok", conn |-> Len(objs[name]) + 1,
           reg |-> [connections EXCEPT ![name] = Len(objs[name]) + 1],
           objs |-> [objs1 EXCEPT ![name] = Append(@, new_connection(name))],
           probes |-> probes, attempts |-> 1]

\* get_connection that tries the native connect a second time when it fails
get_connection_retry_once(name, connect_ok) ==
  LET r == get_connection_keep_stale(name, connect_ok)
      has == name \in ConfigNames /\ connections[name] # NoConn
      stale == has /\ ~_is_connection_valid(name)
      reg1 == IF stale THEN [connections EXCEPT ![name] = NoConn] ELSE connections
      objs1 == IF stale
               THEN [objs EXCEPT ![name][connections[name]] = dropped_connection(@)]
               ELSE objs
  IN IF r.outcome = "ConnectionFailed"
     THEN [r EXCEPT !.attempts = 2, !.reg = reg1, !.objs = objs1]
     ELSE IF r.outcome = "ConfigNameUnknown"
     THEN [r EXCEPT !.reg = reg1, !.objs = objs1]
     ELSE r

\* self.config.get_config(name) returns for a stored name: every ${VAR} of
\* the entry is set in the environment
resolvable(name) ==
  name \in DOMAIN _global_config.configs
    => undefined_references(environ, _global_config.configs[name]) = {}

\* get_connection(name): the registry and the objects after the call, and what
\* the caller gets.  connect_ok: whether the backend accepts a connection now.
\* _is_connection_valid and _create_connection both begin with
\* self.config.get_config(name), outside any try: its error leaves
\* get_connection at that point.
get_connection(name, connect_ok) ==
  LET acquire(resolves) ==
        LET has == name \in ConfigNames /\ connections[name] # NoConn
            valid == has /\ resolves /\ _is_connection_valid(name)
            old == connections[name]
            \* del self.connections[name]
            reg1 == IF has /\ ~valid THEN [connections EXCEPT ![name] = NoConn]
                    ELSE connections
            objs1 == IF has /\ ~valid
                     THEN [objs EXCEPT ![name][old] = dropped_connection(objs[name][old])]
                     ELSE objs
            probes == IF has THEN 1 ELSE 0
        IN IF valid
           THEN [outcome |-> "ok", conn |-> old, reg |-> connections,
                 objs |-> objs, probes |-> 1, attempts |-> 0]
           ELSE IF name \notin DOMAIN configs
           THEN [outcome |-> "ConfigNameUnknown", conn |-> NoConn, reg |-> reg1,
                 objs |-> objs1, probes |-> probes, attempts |-> 0]
           ELSE IF ~resolves
           THEN [outcome |-> "MissingEnvironmentValue", conn |-> NoConn,
                 reg |-> connections, objs |-> objs, probes |-> probes, attempts |-> 0]
           ELSE IF ~connect_ok
           THEN [outcome |-> "ConnectionFailed", conn |-> NoConn, reg |-> reg1,
                 objs |-> objs1, probes |-> probes, attempts |-> 1]
           ELSE [outcome |-> "ok", conn |-> Len(objs[name]) + 1,
                 reg |-> [reg1 EXCEPT ![name] = Len(objs[name]) + 1],
                 objs |-> [objs1 EXCEPT ![name] = Append(@, new_connection(name))],
                 probes |-> probes, attempts |-> 1]
  IN acquire(resolvable(name))

\* close_connection without its `finally`: the entry stays when close() raises
close_connection_no_finally(reg, os, name, close_raises) ==
  IF name \in ConfigNames /\ reg[name] # NoConn
  THEN [reg |-> IF close_raises THEN reg ELSE [reg EXCEPT ![name] = NoConn],
        objs |-> IF close_raises
                 THEN [os EXCEPT ![name][reg[name]] = close_failed_connection(@)]
                 ELSE [os EXCEPT ![name][reg[name]] = closed_connection(@)],
        closed |-> 1,
        swallowed |-> IF close_raises THEN 1 ELSE 0]
  ELSE [reg |-> reg, objs |-> os, closed |-> 0, swallowed |-> 0]

\* close_connection that closes and removes the entry of every name
close_connection_every_entry(reg, os, name, close_raises) ==
  IF name \in ConfigNames /\ reg[name] # NoConn
  THEN [reg |-> [n \in ConfigNames |-> NoConn],
        objs |-> [n \in ConfigNames |->
                    IF reg[n] = NoConn THEN os[n]
                    ELSE IF n = name /\ close_raises
                    THEN [os[n] EXCEPT ![reg[n]] = close_failed_connection(@)]
                    ELSE [os[n] EXCEPT ![reg[n]] = closed_connection(@)]],
        closed |-> 1,
        swallowed |-> IF close_raises THEN 1 ELSE 0]
  ELSE [reg |-> reg, objs |-> os, closed |-> 0, swallowed |-> 0]

\* close_connection(name) on a registry and its objects.
\* close_raises: the native close() raises and leaves the object open.
\* closed: the close() calls made; swallowed: the errors of close() caught.
close_connection(reg, os, name, close_raises) ==
  IF name \in ConfigNames /\ reg[name] # NoConn
  THEN [reg |-> [reg EXCEPT ![name] = NoConn],
        objs |-> IF close_raises
                 THEN [os EXCEPT ![name][reg[name]] = close_failed_connection(@)]
                 ELSE [os EXCEPT ![name][reg[name]] = closed_connection(@)],
        closed |-> 1,
        swallowed |-> IF close_raises THEN 1 ELSE 0]
  ELSE [reg |-> reg, objs |-> os, closed |-> 0, swallowed |-> 0]

\* for name in list(self.connections.keys()): self.close_connection(name)
RECURSIVE close_all_connections(_, _, _, _)
close_all_connections(reg, os, names, raising) ==
  IF names = {} THEN [reg |-> reg, objs |-> os, closed |-> 0, swallowed |-> 0]
  ELSE LET n == CHOOSE x \in names : TRUE
           one == close_connection(reg, os, n, n \in raising)
           others == close_all_connections(one.reg, one.objs, names \ {n}, raising)
       IN [others EXCEPT !.closed = @ + one.closed, !.swallowed = @ + one.swallowed]

(***************************************************************************)
(* What the environment decides during a call: whether the backend accepts *)
(* a new connection, and whether the MySQL client carries several          *)
(* statements in one execute().  Each is drawn only where the call reads   *)
(* it.                                                                     *)
(***************************************************************************)
connect_choices(name) ==
  IF name \in ConfigNames /\ connections[name] # NoConn /\ _is_connection_valid(name)
  THEN {TRUE} ELSE BOOLEAN

multi_choices(name) == IF configs[name] = "mysql" THEN BOOLEAN ELSE {FALSE}

(***************************************************************************)
(* Calls on the connection manager.                                        *)
(***************************************************************************)
\* the connection the call just before this one returned, when that call was a
\* successful get_connection(name); NoConn otherwise
returned_before(name) ==
  IF last.op = "get_connection" /\ last.name = name /\ last.outcome = "ok"
  THEN last.conn ELSE NoConn

GetConnection(name) ==
  \E connect_ok \in connect_choices(name) :
    \E r \in {get_connection(name, connect_ok)} :
       /\ count_created(r.objs, ConfigNames) <= MaxConns
       /\ connections' = r.reg
       /\ objs' = r.objs
       /\ last' = [Call("get_connection", name, <<>>, 0) EXCEPT
                     !.outcome = r.outcome, !.conn = r.conn,
                     !.probes = r.probes, !.attempts = r.attempts,
                     !.prev_conn = returned_before(name)]
       /\ UNCHANGED configs

CloseConnection(name) ==
  \E close_raises \in IF name \in ConfigNames /\ connections[name] # NoConn
                      THEN BOOLEAN ELSE {FALSE} :
    LET r == close_connection(connections, objs, name, close_raises)
    IN /\ connections' = r.reg
       /\ objs' = r.objs
       /\ last' = [Call("close_connection", name, <<>>, 0) EXCEPT
                     !.outcome = "ok", !.closed = r.closed,
                     !.swallowed = r.swallowed]
       /\ UNCHANGED configs

CloseAllConnections ==
  \E raising \in SUBSET {n \in ConfigNames : connections[n] # NoConn} :
    LET r == close_all_connections(connections, objs,
                                   {n \in ConfigNames : connections[n] # NoConn}, raising)
    IN /\ connections' = r.reg
       /\ objs' = r.objs
       /\ last' = [Call("close_all_connections", "", <<>>, 0) EXCEPT
                     !.outcome = "ok", !.closed = r.closed,
                     !.swallowed = r.swallowed]
       /\ UNCHANGED configs

(***************************************************************************)
(* scripts/tools.py: the tool operations.                                  *)
(***************************************************************************)
\* cursor.execute(text) and the fetch on the connection o: the result and the
\* object afterwards.  A statement the PostgreSQL server rejects leaves the
\* session's transaction aborted, so that every later statement on it fails.
run_statement(o, text, multi) ==
  LET result(b) ==
        IF ~o.usable
        THEN [ok |-> FALSE, rows |-> 0, wrote |-> FALSE, obj |-> o]
        ELSE [ok |-> b.ok, rows |-> b.rows, wrote |-> b.wrote,
              obj |-> IF o.kind = "postgresql" /\ b.failed
                      THEN [o EXCEPT !.usable = FALSE] ELSE o]
  IN result(backend_of[o.kind, text, multi])

\* connection.cursor(dictionary=True): a keyword only the MySQL connection takes
dictionary_cursor_ok(kind) == kind = "mysql"

\* the columns of every table of a backend, as its catalogue holds them.
\* notnull: declared NOT NULL; pk: the position of the column in the primary
\* key, 0 when it is not part of it
TableColumns ==
  << [name |-> "id", type |-> "INTEGER", notnull |-> 0, pk |-> 1, dflt |-> "NULL"],
     [name |-> "tenant", type |-> "INTEGER", notnull |-> 0, pk |-> 2, dflt |-> "NULL"],
     [name |-> "email", type |-> "TEXT", notnull |-> 1, pk |-> 0, dflt |-> "''"] >>

\* the rows cursor.fetchall() gives for the statement describe_table sends to
\* a backend of `kind`: DESCRIBE, the information_schema query, PRAGMA table_info
describe_rows(kind) ==
  [i \in 1..Len(TableColumns) |->
     LET c == TableColumns[i]
     IN CASE kind = "mysql" ->
               [Field |-> c.name, Type |-> c.type,
                Null |-> IF c.notnull = 0 /\ c.pk = 0 THEN "YES" ELSE "NO",
                Key |-> IF c.pk > 0 THEN "PRI" ELSE "",
                Default |-> c.dflt, Extra |-> ""]
          [] kind = "postgresql" ->
               [field |-> c.name, type |-> c.type,
                null |-> IF c.notnull = 0 /\ c.pk = 0 THEN "YES" ELSE "NO",
                default_value |-> c.dflt]
          [] OTHER ->
               [cid |-> i - 1, name |-> c.name, type |-> c.type,
                notnull |-> c.notnull, dflt_value |-> c.dflt, pk |-> c.pk]]

\* the "columns" list describe_table builds from the rows, by the branch of `kind`
describe_columns(kind, rows) ==
  [i \in 1..Len(rows) |->
     LET col == rows[i]
     IN CASE kind = "mysql" ->
               [field |-> col.Field, type |-> col.Type, null |-> col.Null,
                key |-> col.Key, default |-> col.Default, extra |-> col.Extra]
          [] kind = "postgresql" ->
               [field |-> col.field, type |-> col.type, null |-> col.null,
                key |-> "", default |-> col.default_value, extra |-> ""]
          [] OTHER ->
               [field |-> col.name, type |-> col.type,
                null |-> IF col.notnull = 0 THEN "YES" ELSE "NO",
                key |-> IF col.pk = 1 THEN "PRI" ELSE "",
                default |-> col.dflt_value, extra |-> ""]]

\* the values of one row as the driver hands them to execute_query, each with
\* its Python type: an INT, a VARCHAR, a DATETIME, a DATE and a BLOB column
fetched_row ==
  << [type |-> "int", v |-> "7"], [type |-> "str", v |-> "ann"],
     [type |-> "datetime", v |-> "datetime(2024, 1, 2, 3, 4, 5)"],
     [type |-> "date", v |-> "date(2024, 1, 2)"],
     [type |-> "bytes", v |-> "b'\\x00'"] >>

\* isinstance(value, cls) for a value of the type: the type is cls or a
\* subclass of it (datetime is a subclass of date, bool of int)
isinstance(type, cls) ==
  type = cls \/ <<type, cls>> \in {<<"datetime", "date">>, <<"bool", "int">>}

\* what the loop over row.items() leaves in row[key]
convert_value(value) ==
  IF isinstance(value.type, "datetime") THEN [type |-> "str", v |-> "isoformat()"]
  ELSE IF isinstance(value.type, "bytes") THEN [type |-> "str", v |-> "<binary data>"]
  ELSE value

\* the "columns" of a table on each kind of backend, and the values of a
\* returned row after the conversion, each computed once
columns_of == [kind \in Kinds |-> describe_columns(kind, describe_rows(kind))]

converted_row == [i \in 1..Len(fetched_row) |-> convert_value(fetched_row[i])]

\* execute_query that obtains the connection before it runs the gate
execute_query_connect_first(query, config_name, limit, connect_ok, multi) ==
  LET call == Call("execute_query", config_name, query, limit)
      text == rewrite_of[query, limit]
      ran(r, got, x) ==
        [reg |-> r.reg, objs |-> [r.objs EXCEPT ![config_name][r.conn] = x.obj],
         last |-> [got EXCEPT
                     !.outcome = IF x.ok THEN "ok" ELSE "BackendExecutionFailed",
                     !.cursors = 1, !.cursor_closes = 1,
                     !.executed = <<[text |-> text, caller |-> TRUE]>>,
                     !.rows = x.rows, !.wrote = x.wrote]]
      gated(r, got, g) ==
        IF r.outcome # "ok"
        THEN [reg |-> r.reg, objs |-> r.objs, last |-> [got EXCEPT !.outcome = r.outcome]]
        ELSE IF ~g.accepted
        THEN [reg |-> r.reg, objs |-> r.objs,
              last |-> [got EXCEPT !.outcome = g.reason, !.kw = g.kw]]
        ELSE IF ~dictionary_cursor_ok(configs[config_name])
        THEN [reg |-> r.reg, objs |-> r.objs, last |-> [got EXCEPT !.outcome = "TypeError"]]
        ELSE ran(r, got, run_statement(r.objs[config_name][r.conn], text, multi))
      with(r) ==
        gated(r, [call EXCEPT !.conn = r.conn, !.probes = r.probes,
                              !.attempts = r.attempts], gate_of[query])
  IN with(get_connection(config_name, connect_ok))

\* execute_query(query, config_name, limit)
execute_query(query, config_name, limit, connect_ok, multi) ==
  LET call == Call("execute_query", config_name, query, limit)
      text == rewrite_of[query, limit]
      ran(r, got, x) ==
        [reg |-> r.reg, objs |-> [r.objs EXCEPT ![config_name][r.conn] = x.obj],
         last |-> [got EXCEPT
                     !.outcome = IF x.ok THEN "ok" ELSE "BackendExecutionFailed",
                     !.cursors = 1, !.cursor_closes = 1,    \* finally: cursor.close()
                     !.executed = <<[text |-> text, caller |-> TRUE]>>,
                     !.rows = x.rows, !.wrote = x.wrote,
                     !.values = IF x.rows > 0 THEN converted_row ELSE <<>>]]
      connected(r, got) ==
        IF r.outcome # "ok"
        THEN [reg |-> r.reg, objs |-> r.objs, last |-> [got EXCEPT !.outcome = r.outcome]]
        ELSE IF ~dictionary_cursor_ok(configs[config_name])
        THEN [reg |-> r.reg, objs |-> r.objs, last |-> [got EXCEPT !.outcome = "TypeError"]]
        ELSE ran(r, got, run_statement(r.objs[config_name][r.conn], text, multi))
      with(r) ==
        connected(r, [call EXCEPT !.conn = r.conn, !.probes = r.probes,
                                  !.attempts = r.attempts])
      gated(g) ==
        IF ~g.accepted
        THEN [reg |-> connections, objs |-> objs,
              last |-> [call EXCEPT !.outcome = g.reason, !.kw = g.kw]]
        ELSE with(get_connection(config_name, connect_ok))
  IN gated(gate_of[query])

\* describe_table(table_name, config_name).  The cursor is opened with
\* dictionary=True before the branch on db_type, so the branches of postgresql
\* and sqlite are never entered.
describe_table(table_name, config_name, connect_ok, multi) ==
  LET call == Call("describe_table", config_name, table_name, 0)
      text == S_Describe \o table_name
      ran(r, got, x) ==
        [reg |-> r.reg, objs |-> [r.objs EXCEPT ![config_name][r.conn] = x.obj],
         last |-> [got EXCEPT
                     !.outcome = IF x.ok THEN "ok" ELSE "BackendExecutionFailed",
                     !.cursors = 1,
                     !.cursor_closes = IF x.ok THEN 1 ELSE 0,  \* no finally
                     !.executed = <<[text |-> text, caller |-> TRUE]>>,
                     !.rows = x.rows, !.wrote = x.wrote,
                     !.columns = IF x.ok THEN columns_of[configs[config_name]]
                                 ELSE <<>>]]
      connected(r, got) ==
        IF r.outcome # "ok"
        THEN [reg |-> r.reg, objs |-> r.objs, last |-> [got EXCEPT !.outcome = r.outcome]]
        ELSE IF ~dictionary_cursor_ok(configs[config_name])
        THEN [reg |-> r.reg, objs |-> r.objs, last |-> [got EXCEPT !.outcome = "TypeError"]]
        ELSE ran(r, got, run_statement(r.objs[config_name][r.conn], text, multi))
      with(r) ==
        connected(r, [call EXCEPT !.conn = r.conn, !.probes = r.probes,
                                  !.attempts = r.attempts])
  IN with(get_connection(config_name, connect_ok))

\* get_table_count(table_name, config_name)
get_table_count(table_name, config_name, connect_ok, multi) ==
  LET call == Call("get_table_count", config_name, table_name, 0)
      text == S_Count \o table_name
      ran(r, got, x) ==
        [reg |-> r.reg, objs |-> [r.objs EXCEPT ![config_name][r.conn] = x.obj],
         last |-> [got EXCEPT
                     !.outcome = IF x.ok THEN "ok" ELSE "BackendExecutionFailed",
                     !.cursors = 1,
                     !.cursor_closes = IF x.ok THEN 1 ELSE 0,  \* no finally
                     !.executed = <<[text |-> text, caller |-> TRUE]>>,
                     !.rows = IF x.ok THEN 1 ELSE 0, !.wrote = x.wrote]]
      connected(r, got) ==
        IF r.outcome # "ok"
        THEN [reg |-> r.reg, objs |-> r.objs, last |-> [got EXCEPT !.outcome = r.outcome]]
        ELSE ran(r, got, run_statement(r.objs[config_name][r.conn], text, multi))
      with(r) ==
        connected(r, [call EXCEPT !.conn = r.conn, !.probes = r.probes,
                                  !.attempts = r.attempts])
  IN with(get_connection(config_name, connect_ok))

\* the statement list_tables and search_tables send to list the tables
list_tables_statement ==
  [mysql |-> <<"S","H","O","W"," ","T","A","B","L","E","S">>,
   postgresql |-> <<"S","E","L","E","C","T"," ","t","a","b","l","e","n","a","m","e"," ","F","R","O","M"," ","p","g","_","t","a","b","l","e","s"," ","W","H","E","R","E"," ","s","c","h","e","m","a","n","a","m","e"," ","="," ","'","p","u","b","l","i","c","'">>,
   sqlite |-> <<"S","E","L","E","C","T"," ","n","a","m","e"," ","F","R","O","M"," ","s","q","l","i","t","e","_","m","a","s","t","e","r"," ","W","H","E","R","E"," ","t","y","p","e","=","'","t","a","b","l","e","'">>]

\* the statements get_database_info sends, each followed by fetchone()[<name>]
get_database_info_statements ==
  [mysql |-> << <<"S","E","L","E","C","T"," ","D","A","T","A","B","A","S","E","(",")"," ","a","s"," ","d","b">>,
                <<"S","E","L","E","C","T"," ","V","E","R","S","I","O","N","(",")"," ","a","s"," ","v","e","r","s","i","o","n">> >>,
   postgresql |-> << <<"S","E","L","E","C","T"," ","c","u","r","r","e","n","t","_","d","a","t","a","b","a","s","e","(",")"," ","a","s"," ","d","b">>,
                     <<"S","E","L","E","C","T"," ","v","e","r","s","i","o","n","(",")"," ","a","s"," ","v","e","r","s","i","o","n">> >>,
   sqlite |-> << <<"S","E","L","E","C","T"," ","s","q","l","i","t","e","_","v","e","r","s","i","o","n","(",")"," ","a","s"," ","v","e","r","s","i","o","n">> >>]

\* the rows a cursor of the connection gives: mysql.connector gives tuples, and
\* dicts from a cursor(dictionary=True); psycopg2 gives RealDictRow, the
\* connection's cursor_factory; sqlite3 gives sqlite3.Row, its row_factory
row_shape(kind, dictionary) ==
  CASE kind = "mysql" -> IF dictionary THEN "dict" ELSE "tuple"
    [] kind = "postgresql" -> "dict"
    [] OTHER -> "Row"

\* whether a row of the shape can be read by row[0] ("position"), by
\* row['column'] ("name"), and the error the read raises when it cannot
read_error(shape, access) ==
  CASE shape = "tuple" /\ access = "name" -> "TypeError"
    [] shape = "dict" /\ access = "position" -> "KeyError"
    [] OTHER -> "ok"

\* str.lower()
lower(s) ==
  [i \in 1..Len(s) |->
     IF \E j \in 1..26 : UpperLetters[j] = s[i]
     THEN LowerLetters[CHOOSE j \in 1..26 : UpperLetters[j] = s[i]]
     ELSE s[i]]

\* the tables in the order the backend lists them
all_tables ==
  << <<"u","s","e","r","s">>, <<"o","r","d","e","r","s">>,
     <<"r","a","t","e","_","l","i","m","i","t","s">> >>

\* matched_tables of search_tables for each keyword, computed once
matched_of ==
  [keyword \in SearchWords |->
     SelectSeq(all_tables, LAMBDA t : contains(lower(t), lower(keyword)))]

\* an executed statement that holds no character of the caller
sent(text) == [text |-> text, caller |-> FALSE]

\* list_tables(config_name)
list_tables(config_name, connect_ok) ==
  LET with(r) ==
        LET call == Call("list_tables", config_name, <<>>, 0)
            kind == configs[config_name]
            o == r.objs[config_name][r.conn]
            read == read_error(row_shape(kind, FALSE), "position")      \* row[0]
            got == [call EXCEPT !.conn = r.conn, !.probes = r.probes, !.attempts = r.attempts]
            ran == [got EXCEPT !.cursors = 1, !.executed = <<sent(list_tables_statement[kind])>>]
        IN [reg |-> r.reg, objs |-> r.objs,
            last |-> IF r.outcome # "ok" THEN [got EXCEPT !.outcome = r.outcome]
                     ELSE IF ~o.usable THEN [ran EXCEPT !.outcome = "BackendExecutionFailed"]
                     ELSE IF read # "ok" THEN [ran EXCEPT !.outcome = read]
                     ELSE [ran EXCEPT !.outcome = "ok", !.cursor_closes = 1,
                                      !.rows = Len(all_tables)]]
  IN with(get_connection(config_name, connect_ok))

\* get_database_info(config_name)
get_database_info(config_name, connect_ok) ==
  LET with(r) ==
        LET call == Call("get_database_info", config_name, <<>>, 0)
            kind == configs[config_name]
            o == r.objs[config_name][r.conn]
            texts == get_database_info_statements[kind]
            read == read_error(row_shape(kind, FALSE), "name")    \* fetchone()['db']
            got == [call EXCEPT !.conn = r.conn, !.probes = r.probes, !.attempts = r.attempts]
            first == [got EXCEPT !.cursors = 1, !.executed = <<sent(texts[1])>>]
        IN [reg |-> r.reg, objs |-> r.objs,
            last |-> IF r.outcome # "ok" THEN [got EXCEPT !.outcome = r.outcome]
                     ELSE IF ~o.usable THEN [first EXCEPT !.outcome = "BackendExecutionFailed"]
                     ELSE IF read # "ok" THEN [first EXCEPT !.outcome = read]
                     ELSE [first EXCEPT !.outcome = "ok", !.cursor_closes = 1, !.rows = 1,
                                        !.executed = [i \in 1..Len(texts) |-> sent(texts[i])]]]
  IN with(get_connection(config_name, connect_ok))

\* search_tables(keyword, config_name)
search_tables(keyword, config_name, connect_ok) ==
  LET with(r) ==
        LET call == Call("search_tables", config_name, keyword, 0)
            kind == configs[config_name]
            o == r.objs[config_name][r.conn]
            read == read_error(row_shape(kind, FALSE), "position")      \* row[0]
            matched == matched_of[keyword]
            got == [call EXCEPT !.conn = r.conn, !.probes = r.probes, !.attempts = r.attempts]
            ran == [got EXCEPT !.cursors = 1, !.executed = <<sent(list_tables_statement[kind])>>]
        IN [reg |-> r.reg, objs |-> r.objs,
            last |-> IF r.outcome # "ok" THEN [got EXCEPT !.outcome = r.outcome]
                     ELSE IF ~o.usable THEN [ran EXCEPT !.outcome = "BackendExecutionFailed"]
                     ELSE IF read # "ok" THEN [ran EXCEPT !.outcome = read]
                     ELSE [ran EXCEPT !.outcome = "ok", !.cursor_closes = 1,
                                      !.rows = Len(matched),
                                      !.executed = @ \o [i \in 1..Len(matched) |->
                                                           sent(S_Count \o matched[i])]]]
  IN with(get_connection(config_name, connect_ok))

\* a tool call takes the registry, the objects and `last` to the tool's result
Apply(result) ==
  \E t \in {result} :
    /\ count_created(t.objs, ConfigNames) <= MaxConns
    /\ connections' = t.reg
    /\ objs' = t.objs
    /\ last' = t.last
    /\ UNCHANGED configs

ExecuteQuery(query, config_name, limit) ==
  \E connect_ok \in IF gate_of[query].accepted THEN connect_choices(config_name) ELSE {TRUE},
     multi \in IF gate_of[query].accepted THEN multi_choices(config_name) ELSE {FALSE} :
    Apply(execute_query(query, config_name, limit, connect_ok, multi))

DescribeTable(table_name, config_name) ==
  \E connect_ok \in connect_choices(config_name), multi \in multi_choices(config_name) :
    Apply(describe_table(table_name, config_name, connect_ok, multi))

GetTableCount(table_name, config_name) ==
  \E connect_ok \in connect_choices(config_name), multi \in multi_choices(config_name) :
    Apply(get_table_count(table_name, config_name, connect_ok, multi))

ListTables(config_name) ==
  \E connect_ok \in connect_choices(config_name) :
    Apply(list_tables(config_name, connect_ok))

GetDatabaseInfo(config_name) ==
  \E connect_ok \in connect_choices(config_name) :
    Apply(get_database_info(config_name, connect_ok))

SearchTables(keyword, config_name) ==
  \E connect_ok \in connect_choices(config_name) :
    Apply(search_tables(keyword, config_name, connect_ok))

(***************************************************************************)
(* The environment.                                                        *)
(***************************************************************************)
\* the stored connection of `name` stops being usable: the server or the
\* network drops it, or the sqlite3 database behind it can no longer be read
Invalidate(name) ==
  /\ connections[name] # NoConn
  /\ objs[name][connections[name]].usable
  /\ objs' = [objs EXCEPT ![name][connections[name]].usable = FALSE]
  /\ last' = Call("invalidate", name, <<>>, 0)
  /\ UNCHANGED <<configs, connections>>

\* the interpreter finalizes a connection object nothing refers to any more
Finalize(name, c) ==
  /\ c \in 1..Len(objs[name])
  /\ ~objs[name][c].closed
  /\ connections[name] # c
  /\ objs' = [objs EXCEPT ![name][c] = closed_connection(@)]
  /\ last' = Call("finalize", name, <<>>, 0)
  /\ UNCHANGED <<configs, connections>>

(***************************************************************************)
(* scripts/server.py: lifespan.                                            *)
(***************************************************************************)
\* the server has not left its lifespan
Running == last.op # "lifespan_end"

\* the `finally` of lifespan, reached when the server stops or when an
\* exception leaves the `yield`: conn_mgr.close_all_connections()
LifespanEnd ==
  \E raising \in SUBSET {n \in ConfigNames : connections[n] # NoConn},
     how \in {"ok", "exception"} :
    LET r == close_all_connections(connections, objs,
                                   {n \in ConfigNames : connections[n] # NoConn}, raising)
    IN /\ connections' = r.reg
       /\ objs' = r.objs
       /\ last' = [Call("lifespan_end", "", <<>>, 0) EXCEPT
                     !.outcome = how, !.closed = r.closed,
                     !.swallowed = r.swallowed]
       /\ UNCHANGED configs

\* the invocations run one after another, within the lifespan
Sequential == Running /\ UNCHANGED <<threads, config_vars>>

Next ==
  \/ \E name \in CallNames : GetConnection(name) /\ Sequential
  \/ \E name \in CallNames : CloseConnection(name) /\ Sequential
  \/ CloseAllConnections /\ Sequential
  \/ \E call \in QueryCalls, name \in ConfigNames :
       ExecuteQuery(call[1], name, call[2]) /\ Sequential
  \/ \E t \in TableNames, name \in ConfigNames : DescribeTable(t, name) /\ Sequential
  \/ \E t \in TableNames, name \in ConfigNames : GetTableCount(t, name) /\ Sequential
  \/ \E name \in ConfigNames : ListTables(name) /\ Sequential
  \/ \E name \in ConfigNames : GetDatabaseInfo(name) /\ Sequential
  \/ \E k \in SearchWords, name \in ConfigNames : SearchTables(k, name) /\ Sequential
  \/ \E name \in ConfigNames : Invalidate(name) /\ Sequential
  \/ \E name \in ConfigNames, c \in 1..MaxConns : Finalize(name, c) /\ Sequential
  \/ LifespanEnd /\ Sequential

Spec == Init /\ [][Next]_vars

(***************************************************************************)
(* Invocations in progress at the same time.  The ConnectionManager is one *)
(* object shared by every invocation (connection.py 263-275) and takes no  *)
(* lock, so an invocation that runs on another thread may run between any  *)
(* two statements of get_connection, of close_connection and of a tool.    *)
(* Each action below is one such statement of one invocation.              *)
(***************************************************************************)
ThreadOps == {"get_connection", "get_table_count", "close_connection"}

InProgress(t) == threads[t].pc \notin {"idle", "done"}

\* the invocation t moves to `pc`
goto(t, pc) == threads' = [threads EXCEPT ![t].pc = pc]

\* the invocation t ends with an error
raise(t, error) ==
  threads' = [threads EXCEPT ![t].pc = "done", ![t].outcome = error, ![t].conn = NoConn]

Conc_unchanged == UNCHANGED <<configs, last, config_vars>>

\* an invocation starts; it overlaps every invocation in progress on its name
Start(t, op, name) ==
  /\ threads[t].pc = "idle"
  /\ threads' =
       [u \in Threads |->
          IF u = t
          THEN [Idle EXCEPT !.pc = IF op = "close_connection" THEN "close_check" ELSE "check",
                            !.op = op, !.name = name,
                            !.overlapped = \E v \in Threads \ {t} :
                                             InProgress(v) /\ threads[v].name = name]
          ELSE IF InProgress(u) /\ threads[u].name = name
          THEN [threads[u] EXCEPT !.overlapped = TRUE]
          ELSE threads[u]]
  /\ UNCHANGED <<connections, objs>>
  /\ Conc_unchanged

\* get_connection: if name in self.connections
Check(t) ==
  /\ threads[t].pc = "check"
  /\ goto(t, IF connections[threads[t].name] # NoConn THEN "probe" ELSE "create")
  /\ UNCHANGED <<connections, objs>>
  /\ Conc_unchanged

\* get_connection: if self._is_connection_valid(name), which answers False
\* when the entry is gone
Probe(t) ==
  LET name == threads[t].name
  IN /\ threads[t].pc = "probe"
     /\ goto(t, IF connections[name] # NoConn /\ _is_connection_valid(name)
                THEN "return" ELSE "del")
     /\ UNCHANGED <<connections, objs>>
     /\ Conc_unchanged

\* get_connection: return self.connections[name]
ReturnStored(t) ==
  LET name == threads[t].name
  IN /\ threads[t].pc = "return"
     /\ IF connections[name] = NoConn
        THEN raise(t, "KeyError")
        ELSE threads' = [threads EXCEPT ![t].pc = "got", ![t].conn = connections[name]]
     /\ UNCHANGED <<connections, objs>>
     /\ Conc_unchanged

\* get_connection: del self.connections[name]
Del(t) ==
  LET name == threads[t].name
  IN /\ threads[t].pc = "del"
     /\ IF connections[name] = NoConn
        THEN raise(t, "KeyError") /\ UNCHANGED connections
        ELSE goto(t, "create") /\ connections' = [connections EXCEPT ![name] = NoConn]
     /\ UNCHANGED objs
     /\ Conc_unchanged

\* get_connection: connection = self._create_connection(name)
Create(t) ==
  LET name == threads[t].name
  IN /\ threads[t].pc = "create"
     /\ \E connect_ok \in IF count_created(objs, ConfigNames) < MaxConns
                          THEN BOOLEAN ELSE {FALSE} :
          IF connect_ok
          THEN /\ objs' = [objs EXCEPT ![name] = Append(@, new_connection(name))]
               /\ threads' = [threads EXCEPT ![t].pc = "store",
                                             ![t].conn = Len(objs[name]) + 1]
          ELSE raise(t, "ConnectionFailed") /\ UNCHANGED objs
     /\ UNCHANGED connections
     /\ Conc_unchanged

\* get_connection: self.connections[name] = connection
Store(t) ==
  /\ threads[t].pc = "store"
  /\ connections' = [connections EXCEPT ![threads[t].name] = threads[t].conn]
  /\ goto(t, "got")
  /\ UNCHANGED objs
  /\ Conc_unchanged

\* get_connection: return connection, to a caller that wanted the connection
Return(t) ==
  /\ threads[t].pc = "got" /\ threads[t].op = "get_connection"
  /\ threads' = [threads EXCEPT ![t].pc = "done", ![t].outcome = "ok"]
  /\ UNCHANGED <<connections, objs>>
  /\ Conc_unchanged

\* get_table_count: cursor = connection.cursor(); cursor.execute(...);
\* cursor.fetchone() on the connection get_connection returned
Execute(t) ==
  LET name == threads[t].name
      c == threads[t].conn
      x == run_statement(objs[name][c], S_Count \o T_Users, FALSE)
  IN /\ threads[t].pc = "got" /\ threads[t].op = "get_table_count"
     /\ objs' = [objs EXCEPT ![name][c] = x.obj]
     /\ IF x.ok THEN goto(t, "executed")
        ELSE threads' = [threads EXCEPT ![t].pc = "done",
                                        ![t].outcome = "BackendExecutionFailed"]
     /\ UNCHANGED connections
     /\ Conc_unchanged

\* get_table_count: cursor.close() and the result
CloseCursor(t) ==
  /\ threads[t].pc = "executed"
  /\ threads' = [threads EXCEPT ![t].pc = "done", ![t].outcome = "ok"]
  /\ UNCHANGED <<connections, objs>>
  /\ Conc_unchanged

\* close_connection: if name in self.connections
CloseCheck(t) ==
  /\ threads[t].pc = "close_check"
  /\ IF threads[t].name \in ConfigNames /\ connections[threads[t].name] # NoConn
     THEN goto(t, "closing")
     ELSE threads' = [threads EXCEPT ![t].pc = "done", ![t].outcome = "ok"]
  /\ UNCHANGED <<connections, objs>>
  /\ Conc_unchanged

\* close_connection: self.connections[name].close(); the KeyError of an entry
\* that is gone is caught with every other error
Close(t) ==
  LET name == threads[t].name
  IN /\ threads[t].pc = "closing"
     /\ objs' = IF connections[name] = NoConn THEN objs
                ELSE [objs EXCEPT ![name][connections[name]] = closed_connection(@)]
     /\ goto(t, "close_del")
     /\ UNCHANGED connections
     /\ Conc_unchanged

\* close_connection: finally: del self.connections[name]
CloseDel(t) ==
  LET name == threads[t].name
  IN /\ threads[t].pc = "close_del"
     /\ IF connections[name] = NoConn
        THEN raise(t, "KeyError") /\ UNCHANGED connections
        ELSE /\ connections' = [connections EXCEPT ![name] = NoConn]
             /\ threads' = [threads EXCEPT ![t].pc = "done", ![t].outcome = "ok"]
     /\ UNCHANGED objs
     /\ Conc_unchanged

\* the caller is done with what the invocation returned
Finish(t) ==
  /\ threads[t].pc = "done"
  /\ threads' = [threads EXCEPT ![t] = Idle]
  /\ UNCHANGED <<connections, objs>>
  /\ Conc_unchanged

NextConc ==
  \/ \E t \in Threads, op \in ThreadOps, name \in ConfigNames : Start(t, op, name)
  \/ \E t \in Threads : Check(t)
  \/ \E t \in Threads : Probe(t)
  \/ \E t \in Threads : ReturnStored(t)
  \/ \E t \in Threads : Del(t)
  \/ \E t \in Threads : Create(t)
  \/ \E t \in Threads : Store(t)
  \/ \E t \in Threads : Return(t)
  \/ \E t \in Threads : Execute(t)
  \/ \E t \in Threads : CloseCursor(t)
  \/ \E t \in Threads : CloseCheck(t)
  \/ \E t \in Threads : Close(t)
  \/ \E t \in Threads : CloseDel(t)
  \/ \E t \in Threads : Finish(t)

SpecConc == Init /\ [][NextConc]_vars

(***************************************************************************)
(* Loading and reading the configuration, for every file and environment   *)
(* the process may be started with.                                        *)
(***************************************************************************)
InitConfig ==
  /\ configs \in {[default |-> "sqlite", reports |-> "mysql"]}
  /\ connections = [n \in ConfigNames |-> NoConn]
  /\ objs = [n \in ConfigNames |-> <<>>]
  /\ last = NoCall
  /\ threads = [t \in Threads |-> Idle]
  /\ config_file \in SourceFiles
  /\ environ \in Environments
  /\ _global_config = NoConfig
  /\ config_last = NoConfigCall

\* config.get_config(): the first call constructs Config, which loads and
\* validates the file; when that raises, _global_config stays None
LoadConfig ==
  LET r == _load_config(config_file)
  IN /\ ~_global_config.loaded
     /\ _global_config' = IF r.outcome = "ok"
                          THEN [loaded |-> TRUE, configs |-> r.configs]
                          ELSE _global_config
     /\ config_last' = [NoConfigCall EXCEPT !.op = "load", !.outcome = r.outcome]
     /\ UNCHANGED <<configs, connections, objs, last, threads, config_file, environ>>

\* the last result get_config has returned so far
earlier_result ==
  IF config_last.op = "get_config" /\ config_last.outcome = "ok"
  THEN [name |-> config_last.name, config |-> config_last.config]
  ELSE config_last.earlier

\* Config.get_config(name) on the loaded configuration
GetConfig(name) ==
  LET r == get_config(_global_config.configs, environ, name)
  IN /\ _global_config.loaded
     /\ _global_config' = [_global_config EXCEPT !.configs = r.configs]
     /\ config_last' = [op |-> "get_config", name |-> name,
                        outcome |-> r.outcome, config |-> r.config,
                        earlier |-> earlier_result]
     /\ UNCHANGED <<configs, connections, objs, last, threads, config_file, environ>>

\* the environment of the process changes between two calls: a variable is
\* set, changed or removed
SetEnv(env) ==
  /\ env # environ
  /\ environ' = env
  /\ config_last' = [NoConfigCall EXCEPT !.op = "setenv", !.earlier = earlier_result]
  /\ UNCHANGED <<configs, connections, objs, last, threads, config_file, _global_config>>

NextConfig ==
  \/ LoadConfig
  \/ \E name \in CallNames : GetConfig(name)
  \/ \E env \in Environments : SetEnv(env)

SpecConfig == InitConfig /\ [][NextConfig]_vars

(***************************************************************************)
(* The connection manager while the environment of the process changes:    *)
(* DB_PASS, which the password of 'default' refers to, is set and removed  *)
(* between calls.                                                          *)
(***************************************************************************)
InitEnv ==
  /\ configs = [default |-> "mysql", reports |-> "sqlite"]
  /\ connections = [n \in ConfigNames |-> NoConn]
  /\ objs = [n \in ConfigNames |-> <<>>]
  /\ last = NoCall
  /\ threads = [t \in Threads |-> Idle]
  /\ config_file = F_Valid
  /\ environ = environment(V_secret, Unset, Unset)
  /\ _global_config = [loaded |-> TRUE, configs |-> F_Valid]
  /\ config_last = NoConfigCall

NextEnv ==
  \/ \E name \in CallNames : GetConnection(name) /\ Sequential
  \/ \E name \in CallNames : CloseConnection(name) /\ Sequential
  \/ \E name \in ConfigNames : Invalidate(name) /\ Sequential
  \/ \E db_pass \in {Unset, V_secret} : SetEnv(environment(db_pass, Unset, Unset))

SpecEnv == InitEnv /\ [][NextEnv]_vars

(***************************************************************************)
(* Properties.                                                             *)
(***************************************************************************)
\* the statement begins with SELECT once it is trimmed and upper-cased
BeginsWithSelect(S) ==
  LET t == upper(strip(S))
  IN Len(t) >= 6 /\ <<t[1], t[2], t[3], t[4], t[5], t[6]>> = <<"S","E","L","E","C","T">>

\* the six keywords no accepted statement may contain
SixKeywords ==
  { <<"D","R","O","P">>, <<"D","E","L","E","T","E">>, <<"T","R","U","N","C","A","T","E">>,
    <<"U","P","D","A","T","E">>, <<"I","N","S","E","R","T">>, <<"A","L","T","E","R">> }

\* the keywords of SixKeywords that occur in the upper-cased statement
KeywordsIn(S) == {k \in SixKeywords : contains(upper(S), k)}

GateErrors == {"NotASelect", "ForbiddenKeyword"}

\* the call made nothing happen on a connection
TouchedNothing(c) ==
  /\ c.conn = NoConn /\ c.probes = 0 /\ c.attempts = 0
  /\ c.cursors = 0 /\ c.executed = <<>> /\ c.rows = 0 /\ ~c.wrote

\* C1: a statement that, trimmed and upper-cased, does not begin with SELECT is
\* rejected by execute_query with an error, whatever the configuration and the
\* limit, and no row is returned.
C1_NonSelectRejected ==
  (last.op = "execute_query" /\ ~BeginsWithSelect(last.arg))
    => (last.outcome \in GateErrors /\ last.rows = 0 /\ last.executed = <<>>)

\* a statement that holds SELECT, but not at its start, has been rejected while
\* a connection is stored for the name
C1_Witness ==
  /\ last.op = "execute_query" /\ last.arg = Q_Explain
  /\ last.outcome = "NotASelect"
  /\ connections[last.name] # NoConn

\* C2: a statement that begins with SELECT and whose upper-cased text contains
\* one of the six keywords as a substring is rejected with an error that names
\* a forbidden keyword the statement contains.
C2_ForbiddenKeywordRejected ==
  (last.op = "execute_query" /\ BeginsWithSelect(last.arg) /\ KeywordsIn(last.arg) # {})
    => /\ last.outcome = "ForbiddenKeyword"
       /\ last.kw \in KeywordsIn(last.arg)
       /\ last.rows = 0 /\ last.executed = <<>>

\* UPDATE inside the identifier last_updated has been rejected, and so has a
\* lower-case keyword inside a string literal
C2_Witness ==
  /\ last.op = "execute_query"
  /\ \/ last.arg = Q_LastUpdated /\ last.kw = <<"U","P","D","A","T","E">>
     \/ last.arg = Q_DropLiteral /\ last.kw = <<"D","R","O","P">>

\* C3: no text that execute_query accepts and sends to a backend creates,
\* changes or removes data or schema there.
C3_AcceptedTextNeverWrites ==
  last.op = "execute_query" => ~last.wrote

\* the statement has no LIMIT clause of its own
NoLimitClause(S) == limit_clause(first_statement(S)) = -1

\* C4: the text execute_query sends is S followed by ' LIMIT N' when S has no
\* LIMIT clause, and S itself when it has one.
C4_SentTextIsReferenceRewrite ==
  (last.op = "execute_query" /\ last.executed # <<>>)
    => last.executed[1].text =
         IF NoLimitClause(last.arg)
         THEN last.arg \o <<" ","L","I","M","I","T"," ">> \o format_int(last.limit)
         ELSE last.arg

\* C5: execute_query returns at most `limit` rows.
C5_AtMostLimitRows ==
  (last.op = "execute_query" /\ last.outcome = "ok") => last.rows <= last.limit

\* C6: a call of execute_query that ends in a gate rejection acquires, validates
\* and creates no connection, opens no cursor, executes nothing, leaves the
\* registry and the connection objects as they were, and returns an error.
C6_RejectedBeforeAnyConnection ==
  [][ (last'.op = "execute_query" /\ last'.outcome \in GateErrors)
        => /\ connections' = connections
           /\ objs' = objs
           /\ TouchedNothing(last') ]_vars

\* a statement has been rejected by the gate while a connection that is no
\* longer usable is stored for the name: the call left it in place
C6_Witness ==
  /\ last.op = "execute_query" /\ last.outcome = "ForbiddenKeyword"
  /\ connections[last.name] # NoConn
  /\ ~objs[last.name][connections[last.name]].usable

\* the statement passes the two checks of the gate
PassesGate(S) == BeginsWithSelect(S) /\ KeywordsIn(strip(S)) = {}

\* C7: every text with caller-supplied characters that reaches cursor.execute,
\* from whichever operation, passes the checks of the gate.
C7_EveryCallerTextGated ==
  \A i \in 1..Len(last.executed) :
    last.executed[i].caller => PassesGate(last.executed[i].text)

\* the native connections of `name` that have been created and not closed
OpenConnections(name) == {i \in 1..Len(objs[name]) : ~objs[name][i].closed}

\* C8: for every configuration name at most one native connection created for
\* it is not closed.
C8_AtMostOneOpenPerName ==
  \A name \in ConfigNames : Cardinality(OpenConnections(name)) <= 1

\* C9: get_connection(name) called right after a successful get_connection(name)
\* returns the same native connection and creates none.
C9_AcquireIdempotent ==
  (last.op = "get_connection" /\ last.prev_conn # NoConn)
    => /\ last.outcome = "ok"
       /\ last.conn = last.prev_conn
       /\ last.attempts = 0
       /\ connections[last.name] = last.prev_conn

\* the second of two calls in a row has returned the connection of the first
C9_Witness ==
  /\ last.op = "get_connection" /\ last.prev_conn # NoConn
  /\ last.conn = last.prev_conn
  /\ last.probes = 1

\* C10: when get_connection(name) fails in the native connect call, the caller
\* gets that error and the registry holds no entry for the name, whether the
\* name had no entry or an entry the call found invalid.
C10_FailedConnectLeavesNoEntry ==
  (last.op = "get_connection" /\ last.attempts = 1 /\ last.conn = NoConn)
    => /\ last.outcome = "ConnectionFailed"
       /\ connections[last.name] = NoConn

\* the connect call has failed after the stored entry was probed and found invalid
C10_Witness ==
  /\ last.op = "get_connection" /\ last.outcome = "ConnectionFailed"
  /\ last.probes = 1
  /\ connections[last.name] = NoConn

\* C11: when the connection stored for a name is no longer usable, the next
\* get_connection(name) that succeeds returns a usable connection, whatever the
\* kind of the backend: a call that raises nothing never hands out the stale one.
C11_StaleConnectionReplaced ==
  (last.op = "get_connection" /\ last.outcome = "ok")
    => objs[last.name][last.conn].usable

\* C12: when two get_connection(name) calls for the same name overlap and both
\* return a connection, exactly one connection created for the name is open
\* and both callers hold it, the one the registry stores.
C12_ConcurrentAcquireOneConnection ==
  \A name \in ConfigNames :
    (\A t \in Threads :
       /\ threads[t].op = "get_connection" /\ threads[t].name = name
       /\ threads[t].pc = "done" /\ threads[t].outcome = "ok"
       /\ threads[t].overlapped)
      => /\ Cardinality(OpenConnections(name)) = 1
         /\ \A t \in Threads : threads[t].conn = connections[name]

\* C13: two tool invocations are never both between their statement's execution
\* and the close of their cursor on the same native connection: the one that
\* executed second would have done so while the other was using the connection.
C13_InvocationsSerializeOnConnection ==
  \A t, u \in Threads :
    (/\ t # u
     /\ threads[t].pc = "executed" /\ threads[u].pc = "executed"
     /\ threads[t].name = threads[u].name)
      => threads[t].conn # threads[u].conn

\* the names that have an entry in the registry
Stored(reg) == {n \in ConfigNames : reg[n] # NoConn}

\* C14: close_connection(name) calls close() on the connection stored for name
\* and removes the entry, also when close() raises: the error is swallowed and
\* the entry is removed all the same; the other entries stay. After
\* close_all_connections every stored connection has had its close() called
\* and the registry is empty. Neither call raises.
C14_CloseRemovesEntry ==
  [][ /\ (last'.op = "close_connection" /\ last'.name \in ConfigNames)
          => /\ connections'[last'.name] = NoConn
             /\ \A n \in ConfigNames \ {last'.name} : connections'[n] = connections[n]
             /\ last'.outcome = "ok"
             /\ last'.closed = Cardinality(Stored(connections) \cap {last'.name})
             /\ \A n \in Stored(connections) \cap {last'.name} :
                  LET o == objs'[n][connections[n]]
                  IN ~o.usable /\ (o.closed \/ (o.close_failed /\ last'.swallowed = 1))
      /\ (last'.op = "close_connection" /\ last'.name \notin ConfigNames)
          => connections' = connections /\ last'.closed = 0 /\ last'.outcome = "ok"
      /\ last'.op = "close_all_connections"
          => /\ Stored(connections') = {}
             /\ last'.outcome = "ok"
             /\ last'.closed = Cardinality(Stored(connections))
             /\ \A n \in Stored(connections) :
                  LET o == objs'[n][connections[n]]
                  IN ~o.usable /\ (o.closed \/ (o.close_failed /\ last'.swallowed >= 1)) ]_vars

\* close_connection has swallowed the error of close() and removed the entry
C14_Witness ==
  /\ last.op = "close_connection" /\ last.swallowed = 1
  /\ last.outcome = "ok"
  /\ connections[last.name] = NoConn

\* C15: once the lifespan has ended, normally or through an exception, the
\* registry is empty and every native connection created during the run has
\* been closed, but for those whose close() raised.
C15_LifespanEndClosesEverything ==
  last.op = "lifespan_end"
    => /\ Stored(connections) = {}
       /\ \A n \in ConfigNames :
            \A i \in OpenConnections(n) : objs[n][i].close_failed

\* C16: no call retries. One get_connection, alone or inside a tool, makes at
\* most one native connect attempt, and one tool invocation executes none of
\* its statements twice; a failed attempt or a failed statement ends the call
\* with that error.
C16_NoAutomaticRetry ==
  /\ last.attempts <= 1
  /\ \A i, j \in 1..Len(last.executed) :
       last.executed[i].text = last.executed[j].text => i = j
  /\ (last.attempts = 1 /\ last.conn = NoConn) => last.outcome = "ConnectionFailed"
  /\ (last.outcome = "BackendExecutionFailed") => (Len(last.executed) = 1 /\ last.rows = 0)

\* a tool has ended with the error of its one failed connect attempt, and a
\* tool has ended with the error of its one failed statement
C16_Witness ==
  /\ last.op \in {"execute_query", "describe_table", "get_table_count"}
  /\ \/ last.outcome = "ConnectionFailed" /\ last.attempts = 1 /\ last.executed = <<>>
     \/ last.outcome = "BackendExecutionFailed" /\ Len(last.executed) = 1

\* the fields an entry of the given kind cannot do without
Required(kind) ==
  IF kind = <<"s","q","l","i","t","e">> THEN {"type", "database"}
  ELSE {"type", "host", "port", "user", "password", "database"}

ThreeKinds ==
  { <<"m","y","s","q","l">>, <<"p","o","s","t","g","r","e","s","q","l">>,
    <<"s","q","l","i","t","e">> }

\* the entry declares no kind, a kind outside the three, or lacks a field its
\* kind requires
InvalidEntry(e) ==
  \/ "type" \notin DOMAIN e
  \/ ~e["type"].str
  \/ e["type"].v \notin ThreeKinds
  \/ \E f \in Required(e["type"].v) : f \notin DOMAIN e

InvalidSource(file) == \E n \in DOMAIN file : InvalidEntry(file[n])

\* C17: when some entry of the configuration file lacks a field its kind
\* requires, or declares a kind outside mysql, postgresql and sqlite, loading
\* fails with an error and no mapping becomes available, not even of the
\* valid entries.
C17_InvalidSourceNeverLoads ==
  InvalidSource(config_file)
    => /\ ~_global_config.loaded
       /\ _global_config.configs = NoConfigs
       /\ config_last.op = "load" => config_last.outcome \in {"MissingFields", "UnsupportedType"}

\* loading has failed on a file whose first entry is valid and whose second
\* entry lacks its password, or declares the kind oracle
C17_Witness ==
  /\ config_last.op = "load"
  /\ \/ config_file = F_MissingPassword /\ config_last.outcome = "MissingFields"
     \/ config_file = F_Oracle /\ config_last.outcome = "UnsupportedType"
  /\ ~InvalidEntry(config_file["default"])
  /\ ~_global_config.loaded

\* C18: the configuration {"default": {"type": "sqlite", "database": "test.db"}},
\* which gives no host, port, user or password, loads.
C18_SqliteEntryWithoutHostLoads ==
  (config_file = F_SqliteShort /\ config_last.op = "load")
    => config_last.outcome = "ok" /\ _global_config.loaded

\* C19: every configuration get_config(name) returns, under any environment,
\* has a `type` among mysql, postgresql and sqlite.
C19_ResolvedTypeInClosedSet ==
  (config_last.op = "get_config" /\ config_last.outcome = "ok")
    => config_last.config["type"].v \in ThreeKinds

\* the stored string is written ${TOKEN}
WrittenAsToken(chars) ==
  Len(chars) >= 3 /\ chars[1] = "$" /\ chars[2] = "{" /\ chars[Len(chars)] = "}"

\* TOKEN of ${TOKEN}
TokenOf(chars) == [i \in 1..(Len(chars) - 3) |-> chars[i + 2]]

\* CHATBI_<FIELDNAME uppercased>
OverrideName ==
  [type |-> <<"C","H","A","T","B","I","_","T","Y","P","E">>,
   host |-> <<"C","H","A","T","B","I","_","H","O","S","T">>,
   port |-> <<"C","H","A","T","B","I","_","P","O","R","T">>,
   user |-> <<"C","H","A","T","B","I","_","U","S","E","R">>,
   password |-> <<"C","H","A","T","B","I","_","P","A","S","S","W","O","R","D">>,
   database |-> <<"C","H","A","T","B","I","_","D","A","T","A","B","A","S","E">>]

\* the one value a stored string resolves to
Resolved(key, chars) ==
  IF WrittenAsToken(chars) THEN environ[TokenOf(chars)]
  ELSE IF OverrideName[key] \in DOMAIN environ THEN environ[OverrideName[key]]
  ELSE chars

\* the string fields of the entry that refer to a variable that is not set
Unresolvable(e) ==
  {k \in DOMAIN e : e[k].str /\ WrittenAsToken(e[k].v) /\ TokenOf(e[k].v) \notin DOMAIN environ}

C21_GetConfigReadsOnly ==
  /\ _global_config.loaded => _global_config.configs = config_file
  /\ (config_last.op = "get_config" /\ config_last.outcome = "ok")
       => /\ config_last.name \in DOMAIN config_file
          /\ \A k \in DOMAIN config_last.config :
               LET stored == config_file[config_last.name][k]
               IN config_last.config[k].v =
                    IF stored.str THEN Resolved(k, stored.v) ELSE stored.v

\* get_config has returned for a name, the environment has changed, and
\* get_config has returned another password for the same name
C21_Witness ==
  /\ config_last.op = "get_config" /\ config_last.outcome = "ok"
  /\ config_last.earlier.name = config_last.name
  /\ config_last.earlier.config["password"] # config_last.config["password"]
  /\ _global_config.configs = config_file

\* C22: a statement that contains one of the six keywords is rejected with the
\* reason ForbiddenKeyword naming a keyword it contains, also when it does not
\* begin with SELECT: 'DELETE FROM users' is rejected with ForbiddenKeyword:
\* DELETE.
C22_ForbiddenKeywordNamedWithoutSelect ==
  (last.op = "execute_query" /\ ~BeginsWithSelect(last.arg) /\ KeywordsIn(last.arg) # {})
    => /\ last.outcome = "ForbiddenKeyword"
       /\ last.kw \in KeywordsIn(last.arg)

\* the keys of a column entry
ColumnKeys == {"field", "type", "null", "key", "default", "extra"}

\* the call got its connection and its statement met no error of the backend
Answered(c) ==
  c.outcome \notin {"ConfigNameUnknown", "ConnectionFailed", "BackendExecutionFailed"}

\* C23: for each of the three kinds, describe_table of an existing table
\* returns one entry per column, each with exactly the six keys field, type,
\* null, key, default, extra, and extra is '' where the backend has none; for
\* sqlite, null is 'YES' exactly when notnull = 0 and key is 'PRI' exactly
\* when the column belongs to the primary key.
C23_DescribeTableShape ==
  (last.op = "describe_table" /\ last.arg = <<"u","s","e","r","s">> /\ Answered(last))
    => /\ last.outcome = "ok"
       /\ Len(last.columns) = Len(TableColumns)
       /\ \A i \in 1..Len(last.columns) :
            /\ DOMAIN last.columns[i] = ColumnKeys
            /\ configs[last.name] # "mysql" => last.columns[i].extra = ""
            /\ configs[last.name] = "sqlite"
                 => /\ last.columns[i].null = "YES" <=> TableColumns[i].notnull = 0
                    /\ last.columns[i].key = "PRI" <=> TableColumns[i].pk > 0

\* the six tool operations
SixTools ==
  {"list_tables", "describe_table", "execute_query", "get_table_count",
   "get_database_info", "search_tables"}

\* C24: for every kind of backend, each of the six tools that has its
\* connection, whose statement (if execute_query's: accepted by the gate) the
\* backend runs without error, returns its result: opening the cursor and
\* reading the rows raise nothing.
C24_ToolsUniformOverKinds ==
  (last.op \in SixTools /\ Answered(last) /\ last.outcome \notin GateErrors)
    => last.outcome = "ok"

\* C25: a get_connection(name), alone or inside a tool, that finds the stored
\* connection invalid has called close() on it by the time it returns or
\* fails: the old connection is closed, or its close() raised and the error
\* was swallowed.
C25_InvalidConnectionClosedFirst ==
  [][ (last'.probes = 1 /\ last'.attempts = 1)
        => LET old == objs'[last'.name][connections[last'.name]]
           IN old.closed \/ old.close_failed ]_vars

\* C26: every tool has closed each cursor it opened by the time it returns or
\* fails: a finished tool call has called cursor.close() as many times as it
\* opened a cursor.
C26_EveryCursorClosed ==
  last.op \in SixTools => last.cursor_closes = last.cursors

\* the types a returned value may have
PlainTypes == {"str", "int", "float", "bool", "NoneType"}

\* C27: every value of a row execute_query returns is a string, a number, a
\* boolean or null: no datetime, date, time or bytes value reaches the caller.
C27_ReturnedValuesArePlain ==
  last.op = "execute_query"
    => \A i \in 1..Len(last.values) : last.values[i].type \in PlainTypes

\* the operations that are invoked for one configuration name
NamedOperations == {"get_connection", "close_connection"} \cup SixTools

\* C28: get_connection(name), close_connection(name) and a tool invoked for
\* name leave every other name alone: for every name m other than name, the
\* registry stores for m the same connection after the call as before it, and
\* every connection created for m is in the state it was in.
C28_OtherNamesUntouched ==
  [][ last'.op \in NamedOperations
        => \A m \in ConfigNames \ {last'.name} :
             /\ connections'[m] = connections[m]
             /\ objs'[m] = objs[m] ]_vars

\* a connection stored for one name has been closed and removed while another
\* name has a connection stored that is open
C28_Witness ==
  /\ last.op = "close_connection" /\ last.closed = 1
  /\ connections[last.name] = NoConn
  /\ \E m \in ConfigNames \ {last.name} :
       connections[m] # NoConn /\ ~objs[m][connections[m]].closed

\* C29: a get_connection(name) that fails leaves no entry for the name in the
\* registry: whatever goes wrong while the stored connection is probed, a
\* ${TOKEN} whose variable is no longer set included, counts as "invalid", so
\* the entry is removed and the call fails, if it fails, creating the
\* replacement.
C29_FailedAcquireLeavesNoEntry ==
  (last.op = "get_connection" /\ last.name \in ConfigNames /\ last.outcome # "ok")
    => connections[last.name] = NoConn

\* the statement terminator occurs in the text
HasTerminator(S) == \E i \in 1..Len(S) : S[i] = ";"

\* C30: when execute_query appends its row cap, the cap is part of the caller's
\* SELECT statement: the text it is appended to holds no statement terminator,
\* so ' LIMIT N' never follows a ';'.
C30_CapInsideTheSelect ==
  (/\ last.op = "execute_query" /\ last.executed # <<>>
   /\ last.executed[1].text # last.arg)
    => ~HasTerminator(last.arg)

====
